---- MODULE Spec2Model ----
(***************************************************************************)
(* User record service of projeto-solar: the User model (validation,       *)
(* uniqueness, soft delete) and the UserController handlers, in its two    *)
(* variants:                                                               *)
(*   "sqlite" - TypeScript controller + SQLite-backed model (sql.js)       *)
(*   "memory" - JavaScript controller + in-memory model (module array)     *)
(* Strings are sequences of one-character strings so that trim, the email  *)
(* pattern and lower-casing are computed, not assumed.                     *)
(***************************************************************************)
EXTENDS Integers, Sequences, FiniteSets, TLC

VARIABLES variant, db, users, nextId, now, before, last

vars == <<variant, db, users, nextId, now, before, last>>

(***************************************************************************)
(* Bounds                                                                  *)
(***************************************************************************)
\* largest identifier a create request may consume
MaxId == 2
\* the clock stops advancing here (later requests share the timestamp)
MaxClock == 3

(***************************************************************************)
(* JavaScript values: undefined, null, NaN, numbers, strings, booleans     *)
(***************************************************************************)
Undef == [t |-> "undefined", n |-> 0, s |-> <<>>]
Null == [t |-> "null", n |-> 0, s |-> <<>>]
NaN == [t |-> "NaN", n |-> 0, s |-> <<>>]
True == [t |-> "boolean", n |-> 1, s |-> <<>>]
False == [t |-> "boolean", n |-> 0, s |-> <<>>]
Num(n) == [t |-> "number", n |-> n, s |-> <<>>]
Str(s) == [t |-> "string", n |-> 0, s |-> s]

\* ToBoolean: what `if (v)`, `!v`, `v || d` and `v ? a : b` test
Truthy(v) ==
    CASE v.t = "number" -> v.n # 0
      [] v.t = "string" -> v.s # <<>>
      [] v.t = "boolean" -> v.n = 1
      [] OTHER -> FALSE

\* typeof v === 'number' (NaN is a number)
TypeofNumber(v) == v.t \in {"number", "NaN"}

\* v < k and v > k on a numeric value: every comparison with NaN is false
JsLess(v, k) == v.t = "number" /\ v.n < k
JsGreater(v, k) == v.t = "number" /\ v.n > k

IsSpace(c) == c = " "

\* String.prototype.trim
Trim(s) ==
    LET keep == {i \in 1..Len(s) : ~IsSpace(s[i])}
        lo == CHOOSE i \in keep : \A j \in keep : i <= j
        hi == CHOOSE i \in keep : \A j \in keep : j <= i
    IN IF keep = {} THEN <<>> ELSE SubSeq(s, lo, hi)

LowerChar(c) ==
    CASE c = "A" -> "a"
      [] c = "B" -> "b"
      [] c = "C" -> "c"
      [] c = "X" -> "x"
      [] OTHER -> c

\* String.prototype.toLowerCase / SQL LOWER()
toLowerCase(s) == [i \in 1..Len(s) |-> LowerChar(s[i])]

IsDigit(c) == c \in {"0", "1", "2", "3", "4", "5", "6", "7", "8", "9"}

DigitVal(c) ==
    CASE c = "0" -> 0 [] c = "1" -> 1 [] c = "2" -> 2 [] c = "3" -> 3
      [] c = "4" -> 4 [] c = "5" -> 5 [] c = "6" -> 6 [] c = "7" -> 7
      [] c = "8" -> 8 [] OTHER -> 9

RECURSIVE DigitsValue(_, _)
\* value of the leading run of decimal digits of s, continuing from acc
DigitsValue(s, acc) ==
    IF s = <<>> \/ ~IsDigit(Head(s)) THEN acc
    ELSE DigitsValue(Tail(s), 10 * acc + DigitVal(Head(s)))

RECURSIVE StripLeft(_)
StripLeft(s) == IF s # <<>> /\ IsSpace(Head(s)) THEN StripLeft(Tail(s)) ELSE s

\* parseInt(v): the argument is converted to a string, leading white space
\* and one sign are skipped and the leading digits are read; no digit gives NaN
parseInt(v) ==
    CASE v.t = "number" -> v
      [] v.t = "string" ->
            LET s0 == StripLeft(v.s)
                neg == s0 # <<>> /\ Head(s0) = "-"
                s1 == IF s0 # <<>> /\ Head(s0) \in {"-", "+"} THEN Tail(s0) ELSE s0
            IN IF s1 = <<>> \/ ~IsDigit(Head(s1)) THEN NaN
               ELSE Num(IF neg THEN 0 - DigitsValue(s1, 0) ELSE DigitsValue(s1, 0))
      [] OTHER -> NaN

\* /^[^\s@]+@[^\s@]+\.[^\s@]+$/ .test(s)
emailRegex(s) ==
    \E i \in 1..Len(s), j \in 1..Len(s) :
        /\ s[i] = "@"
        /\ s[j] = "."
        /\ 1 < i
        /\ i + 1 < j
        /\ j < Len(s)
        /\ \A k \in (1..Len(s)) \ {i} : ~IsSpace(s[k]) /\ s[k] # "@"

\* JSON.stringify of a value: NaN is written as null
JsonValue(v) == IF v.t = "NaN" THEN Null ELSE v

(***************************************************************************)
(* Messages                                                                *)
(***************************************************************************)
MsgNameRequired == "O nome e obrigatorio"
MsgNameLength == "O nome deve ter pelo menos 2 caracteres"
MsgEmailRequired == "O email e obrigatorio"
MsgEmailValid == "O email deve ser valido"
MsgAge == "A idade deve ser um numero entre 0 e 150"
MsgEmailTaken == "Este email ja esta cadastrado"
MsgNotFound == "Usuario nao encontrado"

(***************************************************************************)
(* Record entity, SQLite variant (models/User.ts)                          *)
(***************************************************************************)
\* UserData as the controller hands it to User.create: no id, no active flag,
\* no timestamps (id 0 and timestamp 0 stand for "absent")
UserCreateInput(name, email, password, age) ==
    [id |-> 0, name |-> name, email |-> email, password |-> password,
     age |-> age, is_active |-> Undef, created_at |-> 0, updated_at |-> 0]

\* constructor(data), evaluated at clock reading t
User(data, t) ==
    [id |-> data.id,
     name |-> data.name,
     email |-> data.email,
     password |-> IF Truthy(data.password) THEN data.password ELSE Null,
     age |-> IF data.age \in {Null, Undef} THEN Null ELSE data.age,
     is_active |-> IF data.is_active # Undef THEN data.is_active ELSE True,
     created_at |-> IF data.created_at # 0 THEN data.created_at ELSE t,
     updated_at |-> IF data.updated_at # 0 THEN data.updated_at ELSE t]

fromRow(row) ==
    [id |-> row.id, name |-> row.name, email |-> row.email,
     password |-> row.password, age |-> row.age,
     is_active |-> IF row.is_active = 1 THEN True ELSE False,
     created_at |-> row.created_at, updated_at |-> row.updated_at]

\* validate as it would be returning at the first field that fails
validate_shortCircuit(user) ==
    LET nameErr ==
            IF ~Truthy(user.name) \/ Trim(user.name.s) = <<>> THEN <<MsgNameRequired>>
            ELSE IF Len(Trim(user.name.s)) < 2 THEN <<MsgNameLength>>
            ELSE <<>>
        emailErr ==
            IF ~Truthy(user.email) \/ Trim(user.email.s) = <<>> THEN <<MsgEmailRequired>>
            ELSE IF ~emailRegex(user.email.s) THEN <<MsgEmailValid>>
            ELSE <<>>
        ageErr ==
            IF user.age # Null /\ user.age # Undef
               /\ (JsLess(user.age, 0) \/ JsGreater(user.age, 150))
            THEN <<MsgAge>> ELSE <<>>
        errors == IF nameErr # <<>> THEN nameErr
                  ELSE IF emailErr # <<>> THEN emailErr ELSE ageErr
    IN [valid |-> errors = <<>>, errors |-> errors]

validate(user) ==
    LET nameErr ==
            IF ~Truthy(user.name) \/ Trim(user.name.s) = <<>> THEN <<MsgNameRequired>>
            ELSE IF Len(Trim(user.name.s)) < 2 THEN <<MsgNameLength>>
            ELSE <<>>
        emailErr ==
            IF ~Truthy(user.email) \/ Trim(user.email.s) = <<>> THEN <<MsgEmailRequired>>
            ELSE IF ~emailRegex(user.email.s) THEN <<MsgEmailValid>>
            ELSE <<>>
        ageErr ==
            IF user.age # Null /\ user.age # Undef
               /\ (JsLess(user.age, 0) \/ JsGreater(user.age, 150))
            THEN <<MsgAge>> ELSE <<>>
        errors == nameErr \o emailErr \o ageErr
    IN [valid |-> errors = <<>>, errors |-> errors]

\* toPublicJSON as it would be copying every field of the record
toPublicJSON_withPassword(user) ==
    [id |-> user.id, name |-> user.name, email |-> user.email, age |-> user.age,
     password |-> user.password,
     is_active |-> user.is_active, created_at |-> user.created_at,
     updated_at |-> user.updated_at]

toPublicJSON(user) ==
    [id |-> user.id, name |-> user.name, email |-> user.email, age |-> user.age,
     is_active |-> user.is_active, created_at |-> user.created_at,
     updated_at |-> user.updated_at]

toListJSON(user) == [name |-> user.name, email |-> user.email, age |-> user.age]

\* a value as sql.js binds it: a NaN double is stored by SQLite as NULL
\* (only strings, numbers and null reach a bind in this program)
SqlBind(v) == IF v.t = "NaN" THEN Null ELSE v

\* table constraints of config/database.ts: name and email NOT NULL, email
\* UNIQUE (binary collation); self is the id of the row being rewritten, 0 on insert
SqlAccepts(d, name, email, self) ==
    /\ name # Null
    /\ email # Null
    /\ \A i \in 1..Len(d) : d[i].id # self => d[i].email # email

\* save as it would be with an UPDATE that rewrites created_at as well
save_createdAtRewritten(d, user, t) ==
    LET u == [user EXCEPT !.updated_at = t]
        active == IF Truthy(u.is_active) THEN 1 ELSE 0
        newId == Len(d) + 1
    IN IF u.id # 0
       THEN [threw |-> FALSE,
             db |-> [i \in 1..Len(d) |->
                        IF d[i].id = u.id
                        THEN [d[i] EXCEPT !.name = SqlBind(u.name), !.email = SqlBind(u.email),
                                          !.age = SqlBind(u.age), !.is_active = active,
                                          !.created_at = t, !.updated_at = t]
                        ELSE d[i]],
             user |-> u]
       ELSE [threw |-> FALSE,
             db |-> Append(d, [id |-> newId, name |-> SqlBind(u.name),
                               email |-> SqlBind(u.email), password |-> SqlBind(u.password),
                               age |-> SqlBind(u.age), is_active |-> active,
                               created_at |-> u.created_at, updated_at |-> u.updated_at]),
             user |-> [u EXCEPT !.id = newId]]

\* user.save(): refresh updated_at, UPDATE the row when the id is set, else
\* INSERT and read the generated id back; a constraint failure throws
save(d, user, t) ==
    LET u == [user EXCEPT !.updated_at = t]
        active == IF Truthy(u.is_active) THEN 1 ELSE 0
        ok == SqlAccepts(d, SqlBind(u.name), SqlBind(u.email), u.id)
        newId == Len(d) + 1
        updated ==
            [i \in 1..Len(d) |->
                IF d[i].id = u.id
                THEN [d[i] EXCEPT !.name = SqlBind(u.name), !.email = SqlBind(u.email),
                                  !.password = SqlBind(u.password), !.age = SqlBind(u.age),
                                  !.is_active = active, !.updated_at = u.updated_at]
                ELSE d[i]]
        inserted ==
            Append(d, [id |-> newId, name |-> SqlBind(u.name), email |-> SqlBind(u.email),
                       password |-> SqlBind(u.password), age |-> SqlBind(u.age),
                       is_active |-> active, created_at |-> u.created_at,
                       updated_at |-> u.updated_at])
    IN IF ~ok THEN [threw |-> TRUE, db |-> d, user |-> u]
       ELSE IF u.id # 0 THEN [threw |-> FALSE, db |-> updated, user |-> u]
       ELSE [threw |-> FALSE, db |-> inserted, user |-> [u EXCEPT !.id = newId]]

\* findAll as it would be without the is_active filter
findAll_everyRow(d, t) == [i \in 1..Len(d) |-> User(fromRow(d[i]), t)]

\* SELECT * FROM users WHERE is_active = 1
findAll(d, t) ==
    LET rows == SelectSeq(d, LAMBDA r : r.is_active = 1)
    IN [i \in 1..Len(rows) |-> User(fromRow(rows[i]), t)]

\* findById as it would be without the is_active filter
findById_anyRow(d, id, t) ==
    LET rows == SelectSeq(d, LAMBDA r : r.id = id)
    IN IF rows = <<>> THEN <<>> ELSE <<User(fromRow(rows[1]), t)>>

\* SELECT * FROM users WHERE id = ? AND is_active = 1  (<<>> is null)
findById(d, id, t) ==
    LET rows == SelectSeq(d, LAMBDA r : r.id = id /\ r.is_active = 1)
    IN IF rows = <<>> THEN <<>> ELSE <<User(fromRow(rows[1]), t)>>

\* SELECT * FROM users WHERE LOWER(email) = LOWER(?) AND is_active = 1
findByEmail(d, email, t) ==
    LET rows == SelectSeq(d, LAMBDA r : toLowerCase(r.email.s) = toLowerCase(email.s)
                                         /\ r.is_active = 1)
    IN IF rows = <<>> THEN <<>> ELSE <<User(fromRow(rows[1]), t)>>

\* emailExists as it would be comparing without LOWER()
emailExists_caseSensitive(d, email) == \E i \in 1..Len(d) : d[i].email = email

\* emailExists as it would be counting active rows only
emailExists_activeOnly(d, email) ==
    Cardinality({i \in 1..Len(d) : /\ d[i].is_active = 1
                                   /\ toLowerCase(d[i].email.s) = toLowerCase(email.s)}) > 0

\* SELECT COUNT(*) FROM users WHERE LOWER(email) = LOWER(?)
emailExists(d, email) ==
    Cardinality({i \in 1..Len(d) : toLowerCase(d[i].email.s) = toLowerCase(email.s)}) > 0

\* create as it would be saving before it looks at the validation result
create_savesFirst(d, data, t) ==
    LET user == User(data, t)
        validation == validate(user)
        saved == save(d, user, t)
    IN IF ~validation.valid
       THEN [threw |-> FALSE, success |-> FALSE, errors |-> validation.errors,
             user |-> <<>>, db |-> saved.db]
       ELSE IF emailExists(d, user.email)
       THEN [threw |-> FALSE, success |-> FALSE, errors |-> <<MsgEmailTaken>>,
             user |-> <<>>, db |-> d]
       ELSE [threw |-> saved.threw, success |-> ~saved.threw, errors |-> <<>>,
             user |-> <<saved.user>>, db |-> saved.db]

\* User.create(data)
create(d, data, t) ==
    LET user == User(data, t)
        validation == validate(user)
        saved == save(d, user, t)
    IN IF ~validation.valid
       THEN [threw |-> FALSE, success |-> FALSE, errors |-> validation.errors,
             user |-> <<>>, db |-> d]
       ELSE IF emailExists(d, user.email)
       THEN [threw |-> FALSE, success |-> FALSE, errors |-> <<MsgEmailTaken>>,
             user |-> <<>>, db |-> d]
       ELSE [threw |-> saved.threw, success |-> ~saved.threw, errors |-> <<>>,
             user |-> <<saved.user>>, db |-> saved.db]

\* delete as it would be removing the row (DELETE FROM users WHERE id = ?)
delete_hard(d, id, t) ==
    LET found == findById(d, id, t)
    IN IF found # <<>>
       THEN [threw |-> FALSE, result |-> TRUE, db |-> SelectSeq(d, LAMBDA r : r.id # id)]
       ELSE [threw |-> FALSE, result |-> FALSE, db |-> d]

\* User.delete(id)
delete(d, id, t) ==
    LET found == findById(d, id, t)
        saved == save(d, [found[1] EXCEPT !.is_active = False], t)
    IN IF found # <<>>
       THEN [threw |-> saved.threw, result |-> TRUE, db |-> saved.db]
       ELSE [threw |-> FALSE, result |-> FALSE, db |-> d]

\* SELECT COUNT(*) FROM users WHERE is_active = 1
count(d) == Cardinality({i \in 1..Len(d) : d[i].is_active = 1})

(***************************************************************************)
(* Record entity, in-memory variant (models/User.js): `users` is the       *)
(* module-level array and holds the User objects themselves, so an object  *)
(* handed out by findById is the stored one                                *)
(***************************************************************************)
\* constructor(data): an absent id draws nextId++ (nid is the counter before)
User_js(data, nid, t) ==
    [id |-> IF data.id # 0 THEN data.id ELSE nid,
     name |-> data.name,
     email |-> data.email,
     password |-> IF Truthy(data.password) THEN data.password ELSE Null,
     age |-> IF Truthy(data.age) THEN data.age ELSE Null,
     is_active |-> IF data.is_active # Undef THEN data.is_active ELSE True,
     created_at |-> IF data.created_at # 0 THEN data.created_at ELSE t,
     updated_at |-> IF data.updated_at # 0 THEN data.updated_at ELSE t]

\* validate as it would be without the length check on the name
validate_js_nameAnyLength(user) ==
    LET nameErr ==
            IF ~Truthy(user.name) \/ Trim(user.name.s) = <<>> THEN <<MsgNameRequired>>
            ELSE <<>>
        emailErr ==
            IF ~Truthy(user.email) \/ Trim(user.email.s) = <<>> THEN <<MsgEmailRequired>>
            ELSE IF ~emailRegex(user.email.s) THEN <<MsgEmailValid>>
            ELSE <<>>
        ageErr ==
            IF user.age # Null /\ user.age # Undef
               /\ (~TypeofNumber(user.age) \/ JsLess(user.age, 0) \/ JsGreater(user.age, 150))
            THEN <<MsgAge>> ELSE <<>>
        errors == nameErr \o emailErr \o ageErr
    IN [valid |-> errors = <<>>, errors |-> errors]

validate_js(user) ==
    LET nameErr ==
            IF ~Truthy(user.name) \/ Trim(user.name.s) = <<>> THEN <<MsgNameRequired>>
            ELSE IF Len(Trim(user.name.s)) < 2 THEN <<MsgNameLength>>
            ELSE <<>>
        emailErr ==
            IF ~Truthy(user.email) \/ Trim(user.email.s) = <<>> THEN <<MsgEmailRequired>>
            ELSE IF ~emailRegex(user.email.s) THEN <<MsgEmailValid>>
            ELSE <<>>
        ageErr ==
            IF user.age # Null /\ user.age # Undef
               /\ (~TypeofNumber(user.age) \/ JsLess(user.age, 0) \/ JsGreater(user.age, 150))
            THEN <<MsgAge>> ELSE <<>>
        errors == nameErr \o emailErr \o ageErr
    IN [valid |-> errors = <<>>, errors |-> errors]

\* Array.find / findIndex: the first of the matching positions, 0 when none
FirstIndex(hits) ==
    IF hits = {} THEN 0 ELSE CHOOSE i \in hits : \A j \in hits : i <= j

\* user.save(): refresh updated_at; replace the element with this id or push
save_js(us, user, t) ==
    LET u == [user EXCEPT !.updated_at = t]
        existingIndex == FirstIndex({i \in 1..Len(us) : us[i].id = u.id})
    IN IF existingIndex > 0 THEN [us EXCEPT ![existingIndex] = u] ELSE Append(us, u)

findAll_js(us) == SelectSeq(us, LAMBDA u : Truthy(u.is_active))

\* position in `users` of the object findById returns, 0 for null
findById_js(us, id) ==
    FirstIndex({i \in 1..Len(us) : us[i].id = id /\ Truthy(us[i].is_active)})

findByEmail_js(us, email) ==
    FirstIndex({i \in 1..Len(us) : /\ toLowerCase(us[i].email.s) = toLowerCase(email.s)
                                     /\ Truthy(us[i].is_active)})

\* emailExists as it would be looking at active records only
emailExists_js_activeOnly(us, email) ==
    \E i \in 1..Len(us) :
        Truthy(us[i].is_active) /\ toLowerCase(us[i].email.s) = toLowerCase(email.s)

emailExists_js(us, email) ==
    \E i \in 1..Len(us) : toLowerCase(us[i].email.s) = toLowerCase(email.s)

\* create as it would be inserting without asking emailExists
create_js_noEmailCheck(us, data, nid, t) ==
    LET user == User_js(data, nid, t)
        validation == validate_js(user)
        saved == save_js(us, user, t)
    IN IF ~validation.valid
       THEN [success |-> FALSE, errors |-> validation.errors, user |-> <<>>, users |-> us]
       ELSE [success |-> TRUE, errors |-> <<>>,
             user |-> <<[user EXCEPT !.updated_at = t]>>, users |-> saved]

\* User.create(data); the constructor always consumes an id
create_js(us, data, nid, t) ==
    LET user == User_js(data, nid, t)
        validation == validate_js(user)
        saved == save_js(us, user, t)
    IN IF ~validation.valid
       THEN [success |-> FALSE, errors |-> validation.errors, user |-> <<>>, users |-> us]
       ELSE IF emailExists_js(us, user.email)
       THEN [success |-> FALSE, errors |-> <<MsgEmailTaken>>, user |-> <<>>, users |-> us]
       ELSE [success |-> TRUE, errors |-> <<>>,
             user |-> <<[user EXCEPT !.updated_at = t]>>, users |-> saved]

\* delete as it would be finding the record whether active or not
delete_js_anyRecord(us, id, t) ==
    LET i == FirstIndex({k \in 1..Len(us) : us[k].id = id})
    IN IF i > 0
       THEN [result |-> TRUE,
             users |-> [us EXCEPT ![i].is_active = False, ![i].updated_at = t]]
       ELSE [result |-> FALSE, users |-> us]

\* User.delete(id): the stored object is switched off in place, no save()
delete_js(us, id, t) ==
    LET i == findById_js(us, id)
    IN IF i > 0
       THEN [result |-> TRUE,
             users |-> [us EXCEPT ![i].is_active = False, ![i].updated_at = t]]
       ELSE [result |-> FALSE, users |-> us]

count_js(us) == Len(SelectSeq(us, LAMBDA u : Truthy(u.is_active)))

(***************************************************************************)
(* Controllers.  A handler's result is the HTTP response together with the *)
(* store it leaves behind.  `message` is the list of texts joined by ', ', *)
(* `user` what the model returned (<<>> for none), `data` the JSON body's   *)
(* data (a list of views).                                                  *)
(***************************************************************************)
Response(status, message, errors, user, data) ==
    [status |-> status, message |-> message, errors |-> errors,
     user |-> user, data |-> data]

\* res.json of a view: NaN ages are serialised as null
Json(view) == [view EXCEPT !.age = JsonValue(@)]

InternalError == Response(500, <<"Erro interno">>, <<>>, <<>>, <<>>)
NotFound == Response(404, <<MsgNotFound>>, <<>>, <<>>, <<>>)

\* ---- TypeScript controller over the SQLite model ----
index(d, t) ==
    LET found == findAll(d, t)
    IN [resp |-> Response(200, <<"Usuarios listados com sucesso">>, <<>>, found,
                          [i \in 1..Len(found) |-> Json(toPublicJSON(found[i]))]),
        db |-> d]

show(d, id, t) ==
    LET found == findById(d, parseInt(id).n, t)
    IN [resp |-> IF found = <<>> THEN NotFound
                 ELSE Response(200, <<>>, <<>>, found, <<Json(toPublicJSON(found[1]))>>),
        db |-> d]

\* the UserData store() passes to User.create
storeInput(body) ==
    UserCreateInput(body.name, body.email, body.password,
                    IF Truthy(body.age) THEN parseInt(body.age) ELSE Undef)

store(d, body, t) ==
    LET result == create(d, storeInput(body), t)
    IN IF result.threw THEN [resp |-> InternalError, db |-> result.db]
       ELSE IF ~result.success
       THEN [resp |-> Response(400, result.errors, result.errors, <<>>, <<>>), db |-> result.db]
       ELSE [resp |-> Response(201, <<"Usuario cadastrado com sucesso!">>, <<>>, result.user,
                               <<Json(toPublicJSON(User(result.user[1], t)))>>),
             db |-> result.db]

\* update as it would be without the email conflict check
update_noConflictCheck(d, id, body, t) ==
    LET found == findById(d, parseInt(id).n, t)
        user == found[1]
        merged == [user EXCEPT
                     !.name = IF Truthy(body.name) THEN body.name ELSE @,
                     !.email = IF Truthy(body.email) THEN body.email ELSE @,
                     !.age = IF body.age # Undef THEN parseInt(body.age) ELSE @]
        validation == validate(merged)
        saved == save(d, merged, t)
    IN IF found = <<>> THEN [resp |-> NotFound, db |-> d]
       ELSE IF ~validation.valid
       THEN [resp |-> Response(400, validation.errors, validation.errors, <<>>, <<>>), db |-> d]
       ELSE IF saved.threw THEN [resp |-> InternalError, db |-> saved.db]
       ELSE [resp |-> Response(200, <<"Usuario atualizado com sucesso">>, <<>>, <<saved.user>>,
                               <<Json(toPublicJSON(saved.user))>>),
             db |-> saved.db]

update(d, id, body, t) ==
    LET found == findById(d, parseInt(id).n, t)
        user == found[1]
        merged == [user EXCEPT
                     !.name = IF Truthy(body.name) THEN body.name ELSE @,
                     !.email = IF Truthy(body.email) THEN body.email ELSE @,
                     !.age = IF body.age # Undef THEN parseInt(body.age) ELSE @]
        validation == validate(merged)
        saved == save(d, merged, t)
    IN IF found = <<>> THEN [resp |-> NotFound, db |-> d]
       ELSE IF Truthy(body.email) /\ body.email # user.email /\ emailExists(d, body.email)
       THEN [resp |-> Response(400, <<MsgEmailTaken>>, <<>>, <<>>, <<>>), db |-> d]
       ELSE IF ~validation.valid
       THEN [resp |-> Response(400, validation.errors, validation.errors, <<>>, <<>>), db |-> d]
       ELSE IF saved.threw THEN [resp |-> InternalError, db |-> saved.db]
       ELSE [resp |-> Response(200, <<"Usuario atualizado com sucesso">>, <<>>, <<saved.user>>,
                               <<Json(toPublicJSON(saved.user))>>),
             db |-> saved.db]

destroy(d, id, t) ==
    LET deleted == delete(d, parseInt(id).n, t)
    IN IF deleted.threw THEN [resp |-> InternalError, db |-> deleted.db]
       ELSE IF ~deleted.result THEN [resp |-> NotFound, db |-> deleted.db]
       ELSE [resp |-> Response(200, <<"Usuario removido com sucesso">>, <<>>, <<>>, <<>>),
             db |-> deleted.db]

\* ---- JavaScript controller over the in-memory model ----
index_js(us) ==
    LET found == findAll_js(us)
    IN [resp |-> Response(200, <<"Usuarios listados com sucesso">>, <<>>, found,
                          [i \in 1..Len(found) |-> Json(toListJSON(found[i]))]),
        users |-> us]

show_js(us, id) ==
    LET i == findById_js(us, parseInt(id).n)
    IN [resp |-> IF i = 0 THEN NotFound
                 ELSE Response(200, <<>>, <<>>, <<us[i]>>, <<Json(toPublicJSON(us[i]))>>),
        users |-> us]

storeInput_js(body) ==
    UserCreateInput(body.name, body.email, body.password,
                    IF Truthy(body.age) THEN parseInt(body.age) ELSE Null)

store_js(us, body, nid, t) ==
    LET result == create_js(us, storeInput_js(body), nid, t)
    IN IF ~result.success
       THEN [resp |-> Response(400, result.errors, result.errors, <<>>, <<>>),
             users |-> result.users]
       ELSE [resp |-> Response(201, <<"Usuario cadastrado com sucesso!">>, <<>>, result.user,
                               <<Json(toPublicJSON(result.user[1]))>>),
             users |-> result.users]

\* `user` is the stored object: the three assignments change the store at once
update_js(us, id, body, t) ==
    LET i == findById_js(us, parseInt(id).n)
        user == us[i]
        merged == [user EXCEPT
                     !.name = IF Truthy(body.name) THEN body.name ELSE @,
                     !.email = IF Truthy(body.email) THEN body.email ELSE @,
                     !.age = IF body.age # Undef THEN parseInt(body.age) ELSE @]
        assigned == [us EXCEPT ![i] = merged]
        validation == validate_js(merged)
        saved == save_js(assigned, merged, t)
    IN IF i = 0 THEN [resp |-> NotFound, users |-> us]
       ELSE IF Truthy(body.email) /\ body.email # user.email /\ emailExists_js(us, body.email)
       THEN [resp |-> Response(400, <<MsgEmailTaken>>, <<>>, <<>>, <<>>), users |-> us]
       ELSE IF ~validation.valid
       THEN [resp |-> Response(400, validation.errors, validation.errors, <<>>, <<>>),
             users |-> assigned]
       ELSE [resp |-> Response(200, <<"Usuario atualizado com sucesso">>, <<>>,
                               <<[merged EXCEPT !.updated_at = t]>>,
                               <<Json(toPublicJSON([merged EXCEPT !.updated_at = t]))>>),
             users |-> saved]

destroy_js(us, id, t) ==
    LET deleted == delete_js(us, parseInt(id).n, t)
    IN IF ~deleted.result THEN [resp |-> NotFound, users |-> deleted.users]
       ELSE [resp |-> Response(200, <<"Usuario removido com sucesso">>, <<>>, <<>>, <<>>),
             users |-> deleted.users]

(***************************************************************************)
(* Requests                                                                *)
(***************************************************************************)
\* request bodies of POST /api/users: every combination of an absent, empty,
\* blank, too short or well-formed name, an absent, malformed or well-formed email
\* (two of them equal up to case) and an absent, zero, in-range, out-of-range
\* or non-numeric age
StoreNames == {Undef, Str(<<>>), Str(<<" ">>), Str(<<" ", "B">>), Str(<<"A", "l">>)}
StoreEmails ==
    {Undef, Str(<<"a", "@", "b">>), Str(<<"a", "@", "b", ".", "c">>),
     Str(<<"A", "@", "b", ".", "c">>), Str(<<"x", "@", "b", ".", "c">>)}
StoreAges == {Undef, Num(0), Num(30), Num(200), Str(<<"x">>)}
Passwords == {Str(<<"p", "w">>)}

StoreBodies ==
    [name : StoreNames, email : StoreEmails, password : Passwords, age : StoreAges]

\* request bodies of PUT /api/users/:id: partial updates
UpdateNames == {Undef, Str(<<>>), Str(<<" ", "B">>), Str(<<"A", "l">>)}
UpdateEmails ==
    {Undef, Str(<<"a", "@", "b", ".", "c">>), Str(<<"A", "@", "b", ".", "c">>),
     Str(<<"x", "@", "b", ".", "c">>)}
UpdateAges == {Undef, Null, Num(200)}

UpdateBodies ==
    [name : UpdateNames, email : UpdateEmails, password : {Undef}, age : UpdateAges]

DigitChar(i) ==
    CASE i = 0 -> "0" [] i = 1 -> "1" [] i = 2 -> "2" [] i = 3 -> "3" [] i = 4 -> "4"
      [] i = 5 -> "5" [] i = 6 -> "6" [] i = 7 -> "7" [] i = 8 -> "8" [] OTHER -> "9"

\* the :id path parameter, a string of one digit
IdParams == {Str(<<DigitChar(i)>>) : i \in 1..MaxId}

NoBody == [name |-> Undef, email |-> Undef, password |-> Undef, age |-> Undef]

Request(op, id, body, input, resp) ==
    [op |-> op, at |-> now, id |-> id, body |-> body, input |-> input,
     status |-> resp.status, message |-> resp.message, errors |-> resp.errors,
     user |-> resp.user, data |-> resp.data]

Tick == now' = IF now < MaxClock THEN now + 1 ELSE now

Snapshot == before' = [db |-> db, users |-> users]

(***************************************************************************)
(* Actions: one per route, taken one request at a time, and the reply     *)
(***************************************************************************)
\* no request being answered
Idle ==
    [op |-> "none", at |-> 0, id |-> 0, body |-> NoBody, input |-> <<>>,
     status |-> 0, message |-> <<>>, errors |-> <<>>, user |-> <<>>, data |-> <<>>]

Init ==
    /\ variant \in {"sqlite", "memory"}
    /\ db = <<>>
    /\ users = <<>>
    /\ nextId = 1
    /\ now = 1
    /\ before = [db |-> <<>>, users |-> <<>>]
    /\ last = Idle

\* GET /api/users
Index ==
    /\ last = Idle
    /\ LET r == IF variant = "sqlite" THEN index(db, now).resp ELSE index_js(users).resp
       IN last' = Request("index", 0, NoBody, <<>>, r)
    /\ Tick /\ Snapshot
    /\ UNCHANGED <<variant, db, users, nextId>>

\* GET /api/users/:id
Show ==
    \E id \in IdParams :
        /\ last = Idle
        /\ LET r == IF variant = "sqlite" THEN show(db, id, now).resp
                    ELSE show_js(users, id).resp
           IN last' = Request("show", parseInt(id).n, NoBody, <<>>, r)
        /\ Tick /\ Snapshot
        /\ UNCHANGED <<variant, db, users, nextId>>

\* POST /api/users
Store ==
    \E body \in StoreBodies :
        /\ last = Idle
        /\ IF variant = "sqlite" THEN Len(db) < MaxId ELSE nextId <= MaxId
        /\ IF variant = "sqlite"
           THEN LET r == store(db, body, now)
                IN /\ db' = r.db
                   /\ last' = Request("store", 0, body, <<storeInput(body)>>, r.resp)
                   /\ UNCHANGED <<users, nextId>>
           ELSE LET r == store_js(users, body, nextId, now)
                IN /\ users' = r.users
                   /\ nextId' = nextId + 1
                   /\ last' = Request("store", 0, body, <<storeInput_js(body)>>, r.resp)
                   /\ UNCHANGED db
        /\ Tick /\ Snapshot
        /\ UNCHANGED variant

\* PUT /api/users/:id
Update ==
    \E id \in IdParams, body \in UpdateBodies :
        /\ last = Idle
        /\ IF variant = "sqlite"
           THEN LET r == update(db, id, body, now)
                IN /\ db' = r.db
                   /\ last' = Request("update", parseInt(id).n, body, <<>>, r.resp)
                   /\ UNCHANGED users
           ELSE LET r == update_js(users, id, body, now)
                IN /\ users' = r.users
                   /\ last' = Request("update", parseInt(id).n, body, <<>>, r.resp)
                   /\ UNCHANGED db
        /\ Tick /\ Snapshot
        /\ UNCHANGED <<variant, nextId>>

\* DELETE /api/users/:id
Destroy ==
    \E id \in IdParams :
        /\ last = Idle
        /\ IF variant = "sqlite"
           THEN LET r == destroy(db, id, now)
                IN /\ db' = r.db
                   /\ last' = Request("destroy", parseInt(id).n, NoBody, <<>>, r.resp)
                   /\ UNCHANGED users
           ELSE LET r == destroy_js(users, id, now)
                IN /\ users' = r.users
                   /\ last' = Request("destroy", parseInt(id).n, NoBody, <<>>, r.resp)
                   /\ UNCHANGED db
        /\ Tick /\ Snapshot
        /\ UNCHANGED <<variant, nextId>>

\* the response has been written: the handler's request and response are gone
Reply ==
    /\ last # Idle
    /\ last' = Idle
    /\ before' = [db |-> <<>>, users |-> <<>>]
    /\ UNCHANGED <<variant, db, users, nextId, now>>

Next == Index \/ Show \/ Store \/ Update \/ Destroy \/ Reply

Spec == Init /\ [][Next]_vars

(***************************************************************************)
(* Disk faults (SQLite variant).  save() runs its INSERT or UPDATE on the  *)
(* database in memory and only then calls persistDb(), which exports the   *)
(* database and writes the image with fs.writeFileSync.  When that write   *)
(* throws, the exception leaves save() and the model method and is caught  *)
(* by the handler, which answers 500; the statement has already run.       *)
(***************************************************************************)
\* what a handler that got as far as persistDb() leaves behind when the
\* write throws: r is what it would have returned had the write succeeded
saveDatabaseThrows(r) == [resp |-> InternalError, db |-> r.db]

\* POST /api/users, the disk write failing; save() is reached exactly on the
\* path that otherwise answers 201
StoreDiskFault ==
    \E body \in StoreBodies :
        /\ last = Idle
        /\ variant = "sqlite"
        /\ Len(db) < MaxId
        /\ store(db, body, now).resp.status = 201
        /\ LET r == saveDatabaseThrows(store(db, body, now))
           IN /\ db' = r.db
              /\ last' = Request("store", 0, body, <<storeInput(body)>>, r.resp)
        /\ Tick /\ Snapshot
        /\ UNCHANGED <<variant, users, nextId>>

\* PUT /api/users/:id, the disk write failing
UpdateDiskFault ==
    \E id \in IdParams, body \in UpdateBodies :
        /\ last = Idle
        /\ variant = "sqlite"
        /\ update(db, id, body, now).resp.status = 200
        /\ LET r == saveDatabaseThrows(update(db, id, body, now))
           IN /\ db' = r.db
              /\ last' = Request("update", parseInt(id).n, body, <<>>, r.resp)
        /\ Tick /\ Snapshot
        /\ UNCHANGED <<variant, users, nextId>>

\* DELETE /api/users/:id, the disk write failing
DestroyDiskFault ==
    \E id \in IdParams :
        /\ last = Idle
        /\ variant = "sqlite"
        /\ destroy(db, id, now).resp.status = 200
        /\ LET r == saveDatabaseThrows(destroy(db, id, now))
           IN /\ db' = r.db
              /\ last' = Request("destroy", parseInt(id).n, NoBody, <<>>, r.resp)
        /\ Tick /\ Snapshot
        /\ UNCHANGED <<variant, users, nextId>>

NextFault == Next \/ StoreDiskFault \/ UpdateDiskFault \/ DestroyDiskFault

\* only the SQLite-backed service writes to disk
InitFault == Init /\ variant = "sqlite"

\* the SQLite-backed service on a disk that may fail any write
SpecFault == InitFault /\ [][NextFault]_vars

(***************************************************************************)


(* Vocabulary of the properties                                            *)
(***************************************************************************)
\* the store now, as the pair the snapshot `before` records
Current == [db |-> db, users |-> users]

\* the records a store holds, active or not, as User data
Records(st) ==
    IF variant = "sqlite" THEN [i \in 1..Len(st.db) |-> fromRow(st.db[i])] ELSE st.users

RecordSet(st) == {Records(st)[i] : i \in 1..Len(Records(st))}

SameEmail(e1, e2) == toLowerCase(e1.s) = toLowerCase(e2.s)

\* validate() of the variant in use
Validation(user) == IF variant = "sqlite" THEN validate(user) ELSE validate_js(user)

\* the candidate record create() builds from its input
Candidate(input) ==
    IF variant = "sqlite" THEN User(input, last.at) ELSE User_js(input, 0, last.at)

Unchanged == Current = before

\* the record a PUT or DELETE addressed, as it was before the request
Target == {r \in RecordSet(before) : r.id = last.id}
TargetActive == \E r \in Target : Truthy(r.is_active)

(***************************************************************************)
(* C1: no two stored records, active or soft-deleted, have emails that are *)
(* equal when compared case-insensitively.                                 *)
(***************************************************************************)
C1_EmailsUnique ==
    \A i, j \in 1..Len(Records(Current)) :
        i # j => ~SameEmail(Records(Current)[i].email, Records(Current)[j].email)

\* two records, one of them soft-deleted, right after an update that was saved
\* with an email in the request
C1_Witness ==
    /\ Len(Records(Current)) = 2
    /\ \E r \in RecordSet(Current) : ~Truthy(r.is_active)
    /\ last.op = "update" /\ last.status = 200
    /\ Truthy(last.body.email)

(***************************************************************************)
(* C2: every record held by the store passes validate(), in the SQLite     *)
(* model and in the in-memory model.                                       *)
(***************************************************************************)
C2_StoredRecordsValid ==
    \A r \in RecordSet(Current) : Validation(r).valid

(***************************************************************************)
(* C3: create with input that fails validate() answers success=false with  *)
(* the validation errors and leaves the stored records exactly as before.  *)
(***************************************************************************)
C3_InvalidCreateRejected ==
    (last.op = "store" /\ ~Validation(Candidate(last.input[1])).valid)
        => /\ last.status = 400
           /\ last.errors = Validation(Candidate(last.input[1])).errors
           /\ last.errors # <<>>
           /\ Unchanged

\* an invalid create, two messages long, against a store that holds a record
C3_Witness ==
    /\ last.op = "store"
    /\ ~Validation(Candidate(last.input[1])).valid
    /\ Len(last.errors) >= 2
    /\ Len(Records(before)) >= 1

(***************************************************************************)
(* C4: create with valid input whose email equals, case-insensitively, the *)
(* email of any stored record (active or soft-deleted) answers             *)
(* success=false with exactly the email-taken error; no row is added or    *)
(* changed.                                                                *)
(***************************************************************************)
C4_DuplicateCreateRejected ==
    (/\ last.op = "store"
     /\ Validation(Candidate(last.input[1])).valid
     /\ \E r \in RecordSet(before) : SameEmail(r.email, last.input[1].email))
        => /\ last.status = 400
           /\ last.errors = <<MsgEmailTaken>>
           /\ Unchanged

\* the email is taken only by a soft-deleted record, and only up to case
C4_Witness ==
    /\ last.op = "store"
    /\ last.status = 400
    /\ Validation(Candidate(last.input[1])).valid
    /\ \E r \in RecordSet(before) :
          /\ SameEmail(r.email, last.input[1].email)
          /\ r.email # last.input[1].email
          /\ ~Truthy(r.is_active)

(***************************************************************************)
(* C5: for every valid input with an unused email, create succeeds and an  *)
(* immediately following findById(returned id) yields a record equal in    *)
(* all public-view fields to the one create returned.                      *)
(***************************************************************************)
\* findById(id) now, as a list of at most one record
Found(id) ==
    IF variant = "sqlite" THEN findById(db, id, now)
    ELSE LET i == findById_js(users, id) IN IF i = 0 THEN <<>> ELSE <<users[i]>>

C5_CreateThenFindById ==
    (/\ last.op = "store"
     /\ Validation(Candidate(last.input[1])).valid
     /\ ~\E r \in RecordSet(before) : SameEmail(r.email, last.input[1].email))
        => /\ last.status = 201
           /\ last.user # <<>>
           /\ Found(last.user[1].id) # <<>>
           /\ toPublicJSON(Found(last.user[1].id)[1]) = toPublicJSON(last.user[1])

(***************************************************************************)
(* C6: delete(id) of an active record returns true; a second delete(id)    *)
(* returns false and changes nothing in the store, updatedAt included.     *)
(***************************************************************************)
C6_SecondDeleteNoEffect ==
    last.op = "destroy"
        => IF TargetActive THEN last.status = 200
           ELSE last.status = 404 /\ Unchanged

\* a delete of an already soft-deleted record, asked at a later clock reading
\* than the one its updated_at shows
C6_Witness ==
    /\ last.op = "destroy" /\ last.status = 404
    /\ \E r \in Target : ~Truthy(r.is_active) /\ r.updated_at < last.at

(***************************************************************************)
(* C7: the read operations see only active records: findAll() returns      *)
(* exactly the active records, count() is their number, findById and       *)
(* findByEmail return a record only if it is active.                       *)
(***************************************************************************)
ActiveRecords == {r \in RecordSet(Current) : Truthy(r.is_active)}

FoundAll == IF variant = "sqlite" THEN findAll(db, now) ELSE findAll_js(users)

FoundByEmail(email) ==
    IF variant = "sqlite" THEN findByEmail(db, email, now)
    ELSE LET i == findByEmail_js(users, email) IN IF i = 0 THEN <<>> ELSE <<users[i]>>

Counted == IF variant = "sqlite" THEN count(db) ELSE count_js(users)

C7_ReadsSeeOnlyActive ==
    LET active == ActiveRecords
        all == FoundAll
    IN /\ {all[i] : i \in 1..Len(all)} = active
       /\ Len(all) = Cardinality(active)
       /\ Counted = Len(all)
       /\ \A id \in 0..(MaxId + 1) :
             LET found == Found(id)
             IN {found[i] : i \in 1..Len(found)} = {r \in active : r.id = id}
       /\ \A e \in StoreEmails \ {Undef} :
             LET found == FoundByEmail(e)
             IN /\ \A i \in 1..Len(found) :
                      found[i] \in active /\ SameEmail(found[i].email, e)
                /\ (\E r \in active : SameEmail(r.email, e)) => found # <<>>
       /\ last.op = "index" => Len(last.data) = Cardinality(active)
       /\ last.op = "show" => (last.status = 200 <=> \E r \in active : r.id = last.id)

\* a listing of one record while a soft-deleted one is stored too
C7_Witness ==
    /\ last.op = "index"
    /\ Len(last.data) = 1
    /\ Len(Records(Current)) = 2

(***************************************************************************)
(* C8: an update whose new email belongs to a different active record      *)
(* fails with the email conflict error; the stored record keeps its email  *)
(* and no other stored record changes.                                     *)
(***************************************************************************)
\* some active record other than the addressed one holds this email
HeldByOther(email) ==
    \E r \in RecordSet(before) :
        r.id # last.id /\ Truthy(r.is_active) /\ SameEmail(r.email, email)

C8_UpdateEmailConflict ==
    (/\ last.op = "update"
     /\ TargetActive
     /\ Truthy(last.body.email)
     /\ HeldByOther(last.body.email))
        => /\ last.status = 400
           /\ last.message = <<MsgEmailTaken>>
           /\ Unchanged

\* the conflicting email differs in case from the other record's, and the
\* request carries a name that would fail validation as well
C8_Witness ==
    /\ last.op = "update" /\ TargetActive
    /\ Truthy(last.body.email)
    /\ HeldByOther(last.body.email)
    /\ \A r \in RecordSet(before) : r.email # last.body.email
    /\ last.body.name = Str(<<" ", "B">>)

(***************************************************************************)
(* C9: an update of an active record is rejected for email conflict        *)
(* exactly when the supplied email differs from the record's current email *)
(* and equals, case-insensitively, the email of a different active record. *)
(***************************************************************************)
C9_ConflictExactlyWhenHeldByOther ==
    (last.op = "update" /\ TargetActive)
        => ((last.status = 400 /\ last.message = <<MsgEmailTaken>>)
              <=> (/\ Truthy(last.body.email)
                   /\ \A r \in Target : r.email # last.body.email
                   /\ HeldByOther(last.body.email)))

(***************************************************************************)
(* C10: an update whose merged record (the stored fields overlaid with     *)
(* every field present in the input) fails validate() is rejected with the *)
(* validation errors and the stored record is left exactly as it was.      *)
(***************************************************************************)
\* the stored record overlaid with every field the body carries
Overlaid(r, body) ==
    [r EXCEPT !.name = IF body.name # Undef THEN body.name ELSE @,
              !.email = IF body.email # Undef THEN body.email ELSE @,
              !.age = IF body.age # Undef THEN parseInt(body.age) ELSE @]

C10_InvalidUpdateRejected ==
    \A r \in Target :
        (/\ last.op = "update"
         /\ Truthy(r.is_active)
         /\ ~(last.status = 400 /\ last.message = <<MsgEmailTaken>>)
         /\ ~Validation(Overlaid(r, last.body)).valid)
            => /\ last.status = 400
               /\ last.errors = Validation(Overlaid(r, last.body)).errors
               /\ Unchanged

(***************************************************************************)
(* C11: a successful update changes only the name, email and age of the    *)
(* addressed record and refreshes its updatedAt; its identifier, secret,   *)
(* active flag and createdAt are as before, a field the request does not    *)
(* carry keeps its value, and every other stored record is unchanged.      *)
(***************************************************************************)
C11_UpdateFrame ==
    (last.op = "update" /\ last.status = 200)
        => /\ Len(Records(Current)) = Len(Records(before))
           /\ \A i \in 1..Len(Records(before)) :
                 LET b == Records(before)[i]
                     a == Records(Current)[i]
                 IN IF b.id = last.id
                    THEN /\ a.id = b.id
                         /\ a.password = b.password
                         /\ a.is_active = b.is_active
                         /\ a.created_at = b.created_at
                         /\ a.updated_at = last.at
                         /\ last.body.name = Undef => a.name = b.name
                         /\ last.body.email = Undef => a.email = b.email
                         /\ last.body.age = Undef => a.age = b.age
                    ELSE a = b

\* an update that cleared the age of one of two records and carried the
\* record's own email, at a later clock reading than the record's last write
C11_Witness ==
    /\ last.op = "update" /\ last.status = 200
    /\ Len(Records(before)) = 2
    /\ \E b \in Target, a \in RecordSet(Current) :
          /\ a.id = b.id
          /\ last.body.email = b.email
          /\ b.age = Num(30) /\ a.age = Null
          /\ b.updated_at < a.updated_at

(***************************************************************************)
(* C12: validate() does not short-circuit across fields: the name, email   *)
(* and age checks run independently and the messages of all failing checks *)
(* come back in the order name, email, age, at most one per field, the     *)
(* length/pattern check applying only to a non-empty field; valid is true  *)
(* exactly when the error list is empty.                                   *)
(***************************************************************************)
\* a name and an email that pass their checks
GoodName == Str(<<"A", "l">>)
GoodEmail == Str(<<"a", "@", "b", ".", "c">>)

\* what validate() says about one field, the other two made acceptable
NameMessages(u) == Validation([u EXCEPT !.email = GoodEmail, !.age = Null]).errors
EmailMessages(u) == Validation([u EXCEPT !.name = GoodName, !.age = Null]).errors
AgeMessages(u) == Validation([u EXCEPT !.name = GoodName, !.email = GoodEmail]).errors

\* a text field is empty when it is absent or blank after trimming
Blank(v) == ~Truthy(v) \/ Trim(v.s) = <<>>

\* the record update() validates: the stored one with the request's fields
\* assigned as the handler assigns them
Merged(r, body) ==
    [r EXCEPT !.name = IF Truthy(body.name) THEN body.name ELSE @,
              !.email = IF Truthy(body.email) THEN body.email ELSE @,
              !.age = IF body.age # Undef THEN parseInt(body.age) ELSE @]

\* the records validate() was applied to by the request just handled: the
\* candidate of a create, the merged record of an update
Validated ==
    CASE last.op = "store" -> {Candidate(last.input[1])}
      [] last.op = "update" -> {Merged(r, last.body) : r \in {x \in Target : Truthy(x.is_active)}}
      [] OTHER -> {}

C12_ValidateAccumulates ==
    \A u \in Validated :
        LET v == Validation(u)
            names == NameMessages(u)
            emails == EmailMessages(u)
            ages == AgeMessages(u)
        IN /\ v.errors = names \o emails \o ages
           /\ names = (IF Blank(u.name) THEN <<MsgNameRequired>>
                       ELSE IF Len(Trim(u.name.s)) < 2 THEN <<MsgNameLength>> ELSE <<>>)
           /\ emails = (IF Blank(u.email) THEN <<MsgEmailRequired>>
                        ELSE IF ~emailRegex(u.email.s) THEN <<MsgEmailValid>> ELSE <<>>)
           /\ ages \in {<<>>, <<MsgAge>>}
           /\ v.valid <=> v.errors = <<>>

\* a create whose name, email and age all fail: three messages, in that order
C12_Witness ==
    /\ last.op = "store"
    /\ last.errors = <<MsgNameLength, MsgEmailValid, MsgAge>>

(***************************************************************************)
(* C13: create with a name shorter than 2 characters after trimming, an    *)
(* empty or whitespace-only name included, fails with the 'name must be at *)
(* least 2 characters' message and adds no row to the store.               *)
(***************************************************************************)
\* the messages of a list, as a set
Messages(errors) == {errors[i] : i \in 1..Len(errors)}

\* the name of the create request just handled is a string that trims to
\* fewer than 2 characters
ShortName ==
    /\ last.op = "store"
    /\ last.input[1].name.t = "string"
    /\ Len(Trim(last.input[1].name.s)) < 2

C13_ShortNameLengthMessage ==
    ShortName => /\ last.status = 400
                 /\ MsgNameLength \in Messages(last.errors)
                 /\ Unchanged

(***************************************************************************)
(* C13, as the code has it: such a create fails and adds no row; the       *)
(* message is 'name must be at least 2 characters' when one character is   *)
(* left after trimming, and 'name is required' when the name is empty or   *)
(* whitespace-only.                                                        *)
(***************************************************************************)
C13_ShortNameRejected ==
    ShortName => /\ last.status = 400
                 /\ Unchanged
                 /\ IF Trim(last.input[1].name.s) = <<>>
                    THEN /\ MsgNameRequired \in Messages(last.errors)
                         /\ MsgNameLength \notin Messages(last.errors)
                    ELSE /\ MsgNameLength \in Messages(last.errors)
                         /\ MsgNameRequired \notin Messages(last.errors)

\* a one-character name (after trimming) in an otherwise valid create, with a
\* record already stored
C13_Witness ==
    /\ ShortName
    /\ last.errors = <<MsgNameLength>>
    /\ Len(Records(before)) = 1

(***************************************************************************)
(* C14: validate() reports the age error exactly when age is present (not  *)
(* null/absent) and is not an integer in [0,150]; a not-a-number age       *)
(* produced by parseInt is reported, not accepted.                         *)
(***************************************************************************)
\* present and not a number of [0,150] (every number of the model is an integer)
AgeOutOfContract(age) ==
    /\ age \notin {Null, Undef}
    /\ ~(age.t = "number" /\ 0 <= age.n /\ age.n <= 150)

C14_AgeErrorExactly ==
    \A u \in Validated :
        (MsgAge \in Messages(Validation(u).errors)) <=> AgeOutOfContract(u.age)

(***************************************************************************)
(* C15: the secret (password) is never exposed: whatever the request and   *)
(* its outcome, the response body has no secret field and no value taken   *)
(* from a stored secret; toPublicJSON and toListJSON never include it.     *)
(***************************************************************************)
\* the texts a response's message and errors are made of: literals of the
\* controller and of validate(), none built from request or stored data
ResponseTexts ==
    {MsgNameRequired, MsgNameLength, MsgEmailRequired, MsgEmailValid, MsgAge,
     MsgEmailTaken, MsgNotFound, "Erro interno", "Usuarios listados com sucesso",
     "Usuario cadastrado com sucesso!", "Usuario atualizado com sucesso",
     "Usuario removido com sucesso"}

\* the secrets the store holds or held when the request came in
StoredSecrets ==
    {r.password : r \in RecordSet(Current) \cup RecordSet(before)} \ {Null}

C15_SecretNeverExposed ==
    /\ \A i \in 1..Len(last.data) :
          /\ "password" \notin DOMAIN last.data[i]
          /\ \A f \in DOMAIN last.data[i] \cap {"name", "email", "age", "is_active"} :
                last.data[i][f] \notin StoredSecrets
    /\ Messages(last.message) \cup Messages(last.errors) \subseteq ResponseTexts
    /\ \A r \in RecordSet(Current) :
          /\ "password" \notin DOMAIN toPublicJSON(r)
          /\ "password" \notin DOMAIN toListJSON(r)

\* a response carrying the view of a record whose stored secret is set
C15_Witness ==
    /\ last.op \in {"store", "show", "update"}
    /\ last.data # <<>>
    /\ \E r \in RecordSet(Current) : r.id = last.data[1].id /\ r.password = Str(<<"p", "w">>)

(***************************************************************************)
(* C16: the listing operation returns, for each active record, the listing *)
(* view of exactly name, email and age: no identifier, no timestamps, no   *)
(* active flag.                                                            *)
(***************************************************************************)
C16_ListingView ==
    last.op = "index"
        => /\ Len(last.data) = Len(last.user)
           /\ \A i \in 1..Len(last.data) :
                 /\ DOMAIN last.data[i] = {"name", "email", "age"}
                 /\ last.data[i] = Json(toListJSON(last.user[i]))

(***************************************************************************)
(* C17: delete(id) on an active record returns true, sets that record's    *)
(* active flag to false and refreshes its updatedAt, leaving its other     *)
(* fields and all other records unchanged; no row is ever physically       *)
(* removed, so the number of stored rows never decreases.                  *)
(***************************************************************************)
\* number of rows the store holds, active or not
StoredRows == IF variant = "sqlite" THEN Len(db) ELSE Len(users)

DeleteSwitchesOff ==
    (last.op = "destroy" /\ TargetActive)
        => /\ last.status = 200
           /\ Len(Records(Current)) = Len(Records(before))
           /\ \A i \in 1..Len(Records(before)) :
                 LET b == Records(before)[i]
                     a == Records(Current)[i]
                 IN IF b.id = last.id
                    THEN a = [b EXCEPT !.is_active = False, !.updated_at = last.at]
                    ELSE a = b

C17_SoftDelete ==
    /\ []DeleteSwitchesOff
    /\ [][StoredRows' >= StoredRows]_vars

\* one of two records deleted, at a later clock reading than its last write
C17_Witness ==
    /\ last.op = "destroy" /\ last.status = 200
    /\ Len(Records(Current)) = 2
    /\ \E b \in Target : b.updated_at < last.at
    /\ \E a \in RecordSet(Current) : a.id = last.id /\ ~Truthy(a.is_active)

(***************************************************************************)
(* C18: once a record has been soft-deleted, every later create whose      *)
(* email equals that record's email case-insensitively fails with the      *)
(* conflict error, whatever requests happen in between.                    *)
(***************************************************************************)
\* the create just handled asked for the email of a soft-deleted record
DeletedEmailAsked ==
    /\ last.op = "store"
    /\ \E r \in RecordSet(before) :
          ~Truthy(r.is_active) /\ SameEmail(r.email, last.input[1].email)

C18_DeletedEmailConflict ==
    DeletedEmailAsked => last.status = 400 /\ last.errors = <<MsgEmailTaken>>

(***************************************************************************)
(* C18, as the code has it: a soft-deleted record keeps its email and its  *)
(* inactive state for ever, and every later create asking for that email   *)
(* (case-insensitively) fails and stores nothing; it fails with the        *)
(* conflict error when its input passes validate(), and with the           *)
(* validation errors otherwise, validate() coming first in create.         *)
(***************************************************************************)
\* the soft-deleted records, as identifier and email
SoftDeleted ==
    {[id |-> r.id, email |-> r.email] : r \in {x \in RecordSet(Current) : ~Truthy(x.is_active)}}

DeletedEmailBlocked ==
    DeletedEmailAsked
        => /\ last.status = 400
           /\ Unchanged
           /\ last.errors = (IF Validation(Candidate(last.input[1])).valid
                             THEN <<MsgEmailTaken>>
                             ELSE Validation(Candidate(last.input[1])).errors)

C18_DeletedEmailBlocked ==
    /\ []DeletedEmailBlocked
    /\ [][SoftDeleted \subseteq SoftDeleted']_vars

\* a valid create refused for an email that only a soft-deleted record holds,
\* written in another letter case, the delete lying at an earlier clock reading
C18_Witness ==
    /\ DeletedEmailAsked
    /\ last.errors = <<MsgEmailTaken>>
    /\ \A r \in RecordSet(before) :
          SameEmail(r.email, last.input[1].email)
              => /\ ~Truthy(r.is_active)
                 /\ r.email # last.input[1].email
                 /\ r.created_at < r.updated_at
                 /\ r.updated_at < last.at

(***************************************************************************)
(* C19: under any interleaving of concurrent requests the check-then-      *)
(* insert of create and the load-check-validate-save of update are atomic  *)
(* with respect to other requests: two concurrent creates with             *)
(* case-insensitively equal emails never both succeed.                     *)
(*                                                                         *)
(* Every handler is a synchronous function (no await, no callback, and the *)
(* disk write is writeFileSync), so the event loop runs it to completion   *)
(* before it dispatches the next request: concurrent requests interleave   *)
(* as whole handlers, and a behaviour of Spec is one such dispatch order.  *)
(* Atomicity then says that what a handler decided on (`before`) is what   *)
(* it wrote over: the store it leaves is its own write applied to the      *)
(* store it read, with no other request's write in between.                *)
(***************************************************************************)
\* the stored records holding this email, up to letter case
Holders(st, email) == {r \in RecordSet(st) : SameEmail(r.email, email)}

C19_CheckThenInsertAtomic ==
    /\ (last.op = "store" /\ last.status = 201)
          => /\ Holders(before, last.input[1].email) = {}
             /\ Cardinality(Holders(Current, last.input[1].email)) = 1
             /\ Len(Records(Current)) = Len(Records(before)) + 1
             /\ SubSeq(Records(Current), 1, Len(Records(before))) = Records(before)
    /\ (last.op = "update" /\ last.status = 200)
          => /\ Len(Records(Current)) = Len(Records(before))
             /\ \A i \in 1..Len(Records(before)) :
                   LET b == Records(before)[i]
                       a == Records(Current)[i]
                   IN IF b.id = last.id
                      THEN /\ a.name = Merged(b, last.body).name
                           /\ a.email = Merged(b, last.body).email
                           /\ Holders(Current, a.email) = {a}
                      ELSE a = b

\* two creates asking for the same email in different letter case, handled
\* one right after the other: the first holds the email, the second is refused
C19_Witness ==
    /\ last.op = "store" /\ last.errors = <<MsgEmailTaken>>
    /\ \E r \in Holders(before, last.input[1].email) :
          /\ r.email # last.input[1].email
          /\ Truthy(r.is_active)
          /\ r.created_at = r.updated_at
          /\ r.created_at + 1 = last.at

(***************************************************************************)
(* C20: a successful create request stores a record whose name, email and  *)
(* age equal the values supplied in the request; every supplied age in     *)
(* [0,150], 0 included, is stored as that number and not as absent.        *)
(***************************************************************************)
C20_CreateStoresSupplied ==
    (last.op = "store" /\ last.status = 201)
        => \E r \in RecordSet(Current) :
              /\ r.id = last.user[1].id
              /\ r.name = last.body.name
              /\ r.email = last.body.email
              /\ last.body.age = Undef => r.age = Null
              /\ (last.body.age.t = "number" /\ 0 <= last.body.age.n /\ last.body.age.n <= 150)
                    => r.age = last.body.age

(***************************************************************************)
(* C21: a soft-deleted record is frozen: once delete(id) has succeeded, no *)
(* create, update or delete ever sets the record's active flag back to     *)
(* true or changes any of its fields; update and delete on that id report  *)
(* not-found and leave the store unchanged.                                *)
(***************************************************************************)
\* the soft-deleted records, whole
FrozenRecords == {r \in RecordSet(Current) : ~Truthy(r.is_active)}

\* the request just handled addressed a record that was soft-deleted
DeletedAddressed ==
    /\ last.op \in {"update", "destroy"}
    /\ \E r \in Target : ~Truthy(r.is_active)

DeletedNotFound ==
    DeletedAddressed => /\ last.status = 404
                        /\ last.message = <<MsgNotFound>>
                        /\ Unchanged

C21_SoftDeletedFrozen ==
    /\ []DeletedNotFound
    /\ [][FrozenRecords \subseteq FrozenRecords']_vars

\* an update carrying an acceptable name, email and age for a record that was
\* soft-deleted at an earlier clock reading, another record being active
C21_Witness ==
    /\ last.op = "update"
    /\ last.body.name = Str(<<"A", "l">>)
    /\ Truthy(last.body.email)
    /\ last.body.age = Null
    /\ \E r \in Target : ~Truthy(r.is_active) /\ r.email = last.body.email
                          /\ r.updated_at < last.at
    /\ \E r \in RecordSet(before) : Truthy(r.is_active)

(***************************************************************************)
(* C22: if the backing store fails while a create, update or delete is     *)
(* being persisted (the write of the database image throws and the request *)
(* ends as an internal fault), the records visible to subsequent reads are *)
(* the same as before the request: a failed operation has no effect.       *)
(***************************************************************************)
\* what findAll() would return on a store
Visible(st) ==
    IF variant = "sqlite" THEN findAll(st.db, now) ELSE findAll_js(st.users)

C22_FailedWriteNoEffect ==
    (last.op \in {"store", "update", "destroy"} /\ last.status = 500)
        => Visible(Current) = Visible(before)

====
